---- MODULE Spec2Model ----
(***************************************************************************)
(* Model of hashpy/db/plotter2.py: the interactive stereonet plot of a     *)
(* HASH first-motion focal mechanism (class Plotter) and the waveform      *)
(* fetcher get_waveform_from_arid.                                         *)
(*                                                                         *)
(* Times are counted in ticks of 1/8 second, so that the halving of a      *)
(* window (window/2., a float division) is exact for the windows used:     *)
(* 0.5 s is 4 ticks and 4.0 s is 32 ticks.                                 *)
(* Array indices are the 0-based indices of the Python code; the TLA+      *)
(* sequences that hold the arrays are 1-based, so a[i] is written a[i+1].  *)
(***************************************************************************)
EXTENDS Integers, Sequences, FiniteSets, TLC

VARIABLES
    picks,      \* self.mech.picks: the ordered picks of the mechanism
    source,     \* self.mech.source: the Datascope database of the mechanism
    h_up,       \* self.h_up: marker group of the picks with polarity > 0
    h_down,     \* self.h_down: marker group of the picks with polarity < 0
    h_sta,      \* the station-name markers drawn by plot_on_stereonet
    iup,        \* self.iup: indices into picks of the markers of h_up
    idn,        \* self.idn: indices into picks of the markers of h_down
    pol,        \* self.pol: current polarity label, None, 'U' or 'D'
    l,          \* self.l: reference to the Line2D of the waveform, or None
    Line2D,     \* the live Line2D objects of the waveform: id -> [data, color, lw]
    ax2,        \* self.ax2: the waveform axes [title, xlabel, lines, facecolor]
    last,       \* the call handled last, what it raised and what it requested
    hist        \* history: the pick clicked most recently, whether a fetch failed

vars == <<picks, source, h_up, h_down, h_sta, iup, idn, pol, l, Line2D, ax2, last,
          hist>>

\* The fields of the Plotter and of its waveform axes that the handlers may write.
session == <<picks, source, h_up, h_down, h_sta, iup, idn, pol, l, Line2D, ax2>>

None == "None"

-----------------------------------------------------------------------------
(* Bounds and the data the model is run on *)

MaxPicks == 3       \* longest pick sequence of a mechanism
MaxHits == 2        \* most hit indices one pick event reports

Pick(sta, arid, az, toa, polarity) ==
    [station |-> sta, arid |-> arid, azimuth |-> az, takeoff |-> toa,
     polarity |-> polarity]

\* P1, P2, P3 are the picks (30,100,+1), (200,60,-1), (90,90,+1); the others
\* add a zero polarity and the ends of the takeoff range.
PickPool ==
    << Pick("P1", 1, 30, 100, 1), Pick("P2", 2, 200, 60, -1),
       Pick("P3", 3, 90, 90, 1),  Pick("P4", 4, 300, 180, 0),
       Pick("P5", 5, 120, 0, -2), Pick("P6", 6, 10, 135, 2) >>

Arids == {PickPool[i].arid : i \in DOMAIN PickPool}

Onset(arid) == 800 + 80 * arid

ArrivalRow(arid) ==
    [arid |-> arid, time |-> Onset(arid),
     sta |-> PickPool[CHOOSE i \in DOMAIN PickPool : PickPool[i].arid = arid].station,
     chan |-> IF arid % 2 = 0 THEN "BHZ" ELSE "HHZ"]

WfdiscRow(arid) ==
    [sta |-> ArrivalRow(arid).sta, chan |-> ArrivalRow(arid).chan,
     time |-> 0, endtime |-> 4000]

\* A database: its arrival table and its wfdisc table (the waveform segments).
DbComplete ==
    [arrival |-> {ArrivalRow(a) : a \in Arids},
     wfdisc  |-> {WfdiscRow(a) : a \in Arids}]

\* Arrivals 3 and 6 are absent; arrival 2 has no waveform at all and the
\* waveform of arrival 5 ends long before its onset.
DbGaps ==
    [arrival |-> {ArrivalRow(a) : a \in Arids \ {3, 6}},
     wfdisc  |-> {WfdiscRow(a) : a \in Arids \ {2, 5}}
                 \cup {[WfdiscRow(5) EXCEPT !.endtime = 100]}]

Sources == {DbComplete, DbGaps}

\* Window widths in ticks: 0.5 s, 1 s, 4 s.
Windows == {4, 8, 32}

-----------------------------------------------------------------------------
(* get_waveform_from_arid *)

DefaultWindow == 32     \* window=4.
ClickWindow == 4        \* window=0.5

\* the subset left out: record 0 of the whole arrival table is read
dbsubset_left_out(database, arid) == database.arrival

\* dbprocess(db, ['dbopen arrival', 'dbsubset arid==...'])
dbsubset(database, arid) == {r \in database.arrival : r.arid = arid}

\* readANTELOPE(database, station, channel, starttime, endtime): a Stream,
\* one Trace per wfdisc segment of that station and channel that overlaps
\* the interval; the samples are named by what they cover.
readANTELOPE(database, station, channel, starttime, endtime) ==
    IF \E w \in database.wfdisc :
           /\ w.sta = station /\ w.chan = channel
           /\ w.time < endtime /\ w.endtime > starttime
    THEN << [data |-> [station |-> station, channel |-> channel,
                       starttime |-> starttime, endtime |-> endtime]] >>
    ELSE << >>

\* t1 = t0 + window taken from the onset instead of from t0
window_from_onset(time, window) ==
    [t0 |-> time - (window \div 2), t1 |-> time + window]

\* t0 = utc(time)-(window/2.); t1 = t0 + window
window_around(time, window) ==
    LET t0 == time - (window \div 2)
    IN  [t0 |-> t0, t1 |-> t0 + window]

\* The result of a call: the exception raised (None if it returned), the
\* Stream returned and the requests made to readANTELOPE.
get_waveform_from_arid(database, arid, window) ==
    LET dbv == dbsubset(database, arid)
    IN  IF dbv = {}
        THEN [raised |-> "DbgetvError", st |-> << >>, requests |-> << >>]
        ELSE LET row == CHOOSE r \in dbv : TRUE
                 t0 == window_around(row.time, window).t0
                 t1 == window_around(row.time, window).t1
                 req == [station |-> row.sta, channel |-> row.chan,
                         starttime |-> t0, endtime |-> t1]
             IN  [raised |-> None,
                  st |-> readANTELOPE(database, row.sta, row.chan, t0, t1),
                  requests |-> <<req>>]

-----------------------------------------------------------------------------
(* Plotter.plot_on_stereonet *)

abs(x) == IF x < 0 THEN -x ELSE x

\* the plunge taken as 90 - takeoff, sign kept
takeoffs_signed(mech_picks) ==
    [i \in 1..Len(mech_picks) |-> 90 - mech_picks[i].takeoff]

\* takeoffs = abs(self.mech.picks['takeoff'] - 90)
takeoffs(mech_picks) ==
    [i \in 1..Len(mech_picks) |-> abs(mech_picks[i].takeoff - 90)]

polarities(mech_picks) == [i \in 1..Len(mech_picks) |-> mech_picks[i].polarity]

azimuths(mech_picks) == [i \in 1..Len(mech_picks) |-> mech_picks[i].azimuth]

\* the up mask taken with the sign of the down mask
up_negative(mech_picks) ==
    [i \in 1..Len(mech_picks) |-> polarities(mech_picks)[i] < 0]

\* the down mask taking the zero polarities too
dn_or_zero(mech_picks) ==
    [i \in 1..Len(mech_picks) |-> polarities(mech_picks)[i] <= 0]

\* up = polarities > 0, dn = polarities < 0: boolean masks
up(mech_picks) ==
    [i \in 1..Len(mech_picks) |-> polarities(mech_picks)[i] > 0]

dn(mech_picks) ==
    [i \in 1..Len(mech_picks) |-> polarities(mech_picks)[i] < 0]

\* numpy.arange(n): 0, 1, ..., n-1
arange(n) == [i \in 1..n |-> i - 1]

\* a[mask]: the elements of a at which the mask is true, in order
RECURSIVE BoolIndex(_, _)
BoolIndex(a, mask) ==
    IF a = << >> THEN << >>
    ELSE (IF Head(mask) THEN <<Head(a)>> ELSE << >>)
         \o BoolIndex(Tail(a), Tail(mask))

\* ax.rake(strike, dip, rake_angle, ...): one marker per element
rake(strikes, dips, rake_angle) ==
    [i \in 1..Len(strikes) |->
        [strike |-> strikes[i], dip |-> dips[i], rake |-> rake_angle]]

\* azimuths[mask] - 90.
strikes_of(mech_picks, mask) ==
    LET a == BoolIndex(azimuths(mech_picks), mask)
    IN  [i \in 1..Len(a) |-> a[i] - 90]

h_rk_up(mech_picks) ==
    [name |-> "h_rk_up",
     xy |-> rake(strikes_of(mech_picks, up(mech_picks)),
                 BoolIndex(takeoffs(mech_picks), up(mech_picks)), 90)]

h_rk_dn(mech_picks) ==
    [name |-> "h_rk_dn",
     xy |-> rake(strikes_of(mech_picks, dn(mech_picks)),
                 BoolIndex(takeoffs(mech_picks), dn(mech_picks)), 90)]

\* the station-name markers: one rake call per pick, at takeoffs[i]+5
h_rk_sta(mech_picks) ==
    [i \in 1..Len(mech_picks) |->
        [name |-> mech_picks[i].station,
         xy |-> rake(<<azimuths(mech_picks)[i] - 90>>,
                     <<takeoffs(mech_picks)[i] + 5>>, 90)]]

iup_of(mech_picks) == BoolIndex(arange(Len(mech_picks)), up(mech_picks))

\* self.idn built with the up mask
idn_from_up(mech_picks) == BoolIndex(arange(Len(mech_picks)), up(mech_picks))

idn_of(mech_picks) == BoolIndex(arange(Len(mech_picks)), dn(mech_picks))

-----------------------------------------------------------------------------
(* Plotter.__init__ *)

\* A fresh axes, also what ax.clear() leaves.
ClearAxes == [title |-> "", xlabel |-> "", lines |-> << >>, facecolor |-> "white"]

NoCall ==
    [handler |-> "__init__", artist |-> None, ind |-> << >>, inaxes |-> None,
     fm |-> << >>, arid |-> 0, window |-> 0, raised |-> None, requests |-> << >>,
     calls |-> 0]

\* The mechanisms: the subsequences of the pool of at most MaxPicks picks
\* (the arrival id is unique within a mechanism).
PickSeqs ==
    { BoolIndex(PickPool, [i \in DOMAIN PickPool |-> i \in S]) :
        S \in { T \in SUBSET (DOMAIN PickPool) : Cardinality(T) <= MaxPicks } }

Init ==
    /\ picks \in PickSeqs
    /\ source \in Sources
    /\ h_up = h_rk_up(picks)
    /\ h_down = h_rk_dn(picks)
    /\ h_sta = h_rk_sta(picks)
    /\ iup = iup_of(picks)
    /\ idn = idn_of(picks)
    /\ pol = None
    /\ l = None
    /\ Line2D = << >>
    /\ ax2 = ClearAxes
    /\ last = NoCall
    /\ hist = [recent |-> << >>, failed |-> FALSE]

-----------------------------------------------------------------------------
(* The events the canvas delivers *)

\* the strictly increasing sequences over 0..n-1 of length at most len
Increasing(n, len) ==
    { s \in UNION { [1..m -> 0..(n - 1)] : m \in 0..len } :
        \A j \in 1..(Len(s) - 1) : s[j] < s[j + 1] }

\* The artists a pick event can name: the two marker groups and the
\* station-name markers.
Artists == {h_up, h_down} \cup { h_sta[i] : i \in 1..Len(h_sta) }

\* pick_event: the artist hit and the indices of its markers under the pointer
PickEvents ==
    { [artist |-> a, ind |-> s] : a \in Artists, s \in Increasing(MaxPicks + 1, MaxHits) }

Hits(event) == \A j \in 1..Len(event.ind) : event.ind[j] < Len(event.artist.xy)

\* axes_enter_event, axes_leave_event, button_press_event: the axes under
\* the pointer (a button press may be outside every axes)
Axes == {"ax", "ax2"}

-----------------------------------------------------------------------------
(* Plotter.onpick *)

\* the two colors exchanged
wf_color_exchanged == [U |-> "blue", D |-> "red"]

wf_color == [U |-> "red", D |-> "blue"]

\* "{0} -- {1}".format(fm['station'], fm['arid'])
Title(fm) == fm.station \o " -- " \o ToString(fm.arid)

\* The Line2D objects still referenced
Live(heap, refs) == [i \in (DOMAIN heap) \cap refs |-> heap[i]]

LineIds == {"line1", "line2"}

Refs(ref, lines) == (IF ref = None THEN {} ELSE {ref}) \cup {lines[i] : i \in 1..Len(lines)}

Handled(handler, artist, ind, inaxes, fm, raised, requests) ==
    [handler |-> handler, artist |-> artist, ind |-> ind, inaxes |-> inaxes,
     fm |-> fm, arid |-> 0, window |-> 0, raised |-> raised, requests |-> requests,
     calls |-> 0]

\* the hit reported last taken instead of the first
dataind_last(ind) == ind[Len(ind)]

\* dataind = event.ind[0]
dataind_of(ind) == ind[1]

\* k = inds[dataind]; fm = self.mech.picks[k]
fm_of(dataind, inds) == picks[inds[dataind + 1] + 1]

\* what ends the handler: the exception of the fetcher, or that of st[0] on
\* an empty Stream
raised_of(got) ==
    IF got.raised # None THEN got.raised
    ELSE IF got.st = << >> THEN "IndexError" ELSE None

\* a second call of the fetcher after one that failed
fetch_with_retry(database, arid) ==
    LET first == get_waveform_from_arid(database, arid, ClickWindow)
        again == get_waveform_from_arid(database, arid, ClickWindow)
    IN  IF raised_of(first) = None THEN [got |-> first, calls |-> 1]
        ELSE [got |-> [again EXCEPT !.requests = first.requests \o @], calls |-> 2]

\* st = get_waveform_from_arid(self.mech.source, fm['arid'], window=0.5):
\* what the call returned and how many calls were made
fetch_for_click(database, arid) ==
    [got |-> get_waveform_from_arid(database, arid, ClickWindow), calls |-> 1]

\* lines 79-90, what they write to the Plotter and its waveform axes
onpick_panel(dataind, inds, pick) ==
    LET fm == fm_of(dataind, inds)
        cleared == [ClearAxes EXCEPT !.title = Title(fm), !.xlabel = pick]
        got == fetch_for_click(source, fm.arid).got
        new == CHOOSE i \in LineIds : i \notin Refs(l, << >>)
    IN  /\ pol' = pick
        /\ IF raised_of(got) # None
           THEN /\ ax2' = cleared
                /\ l' = l
                /\ Line2D' = Live(Line2D, Refs(l, << >>))
           ELSE /\ ax2' = [cleared EXCEPT !.lines = <<new>>]
                /\ l' = new
                /\ Line2D' = Live((new :> [data |-> got.st[1].data,
                                            color |-> wf_color[pick], lw |-> 2])
                                  @@ Line2D, {new})
        /\ UNCHANGED <<picks, source, h_up, h_down, h_sta, iup, idn>>

\* lines 79-92: the marker group of the event is known
onpick_selected(event, inds, pick) ==
    LET dataind == dataind_of(event.ind)
        fm == fm_of(dataind, inds)
        fetch == fetch_for_click(source, fm.arid)
    IN  /\ onpick_panel(dataind, inds, pick)
        /\ last' = [Handled("onpick", event.artist.name, event.ind, None, <<fm>>,
                            raised_of(fetch.got), fetch.got.requests)
                    EXCEPT !.calls = fetch.calls]

\* a pick event that selects nothing also drops the label
onpick_return_deselect(event) ==
    /\ last' = Handled("onpick", event.artist.name, event.ind, None, << >>, None, << >>)
    /\ pol' = None
    /\ UNCHANGED <<picks, source, h_up, h_down, h_sta, iup, idn, l, Line2D, ax2>>

onpick_return(event) ==
    /\ last' = Handled("onpick", event.artist.name, event.ind, None, << >>, None, << >>)
    /\ UNCHANGED session

\* onpick without its first guard: the group is dispatched on with no hit,
\* and event.ind[0] raises IndexError after the label and the axes are written
onpick_unguarded(event) ==
    IF Len(event.ind) = 0 /\ event.artist \in {h_up, h_down}
    THEN /\ pol' = IF event.artist = h_up THEN "U" ELSE "D"
         /\ ax2' = ClearAxes
         /\ last' = Handled("onpick", event.artist.name, event.ind, None, << >>,
                            "IndexError", << >>)
         /\ UNCHANGED <<picks, source, h_up, h_down, h_sta, iup, idn, l, Line2D>>
    ELSE IF Len(event.ind) = 0 THEN onpick_return(event)
    ELSE IF event.artist = h_up THEN onpick_selected(event, iup, "U")
    ELSE IF event.artist = h_down THEN onpick_selected(event, idn, "D")
    ELSE onpick_return(event)

\* the last branch taken as the down group: any artist that is not the up
\* group is looked up in idn, and inds[dataind] raises IndexError, after the
\* label and the axes are written, when idn is too short
onpick_else_down(event) ==
    IF Len(event.ind) = 0 THEN onpick_return(event)
    ELSE IF event.artist = h_up THEN onpick_selected(event, iup, "U")
    ELSE IF dataind_of(event.ind) < Len(idn) THEN onpick_selected(event, idn, "D")
    ELSE /\ pol' = "D"
         /\ ax2' = ClearAxes
         /\ last' = Handled("onpick", event.artist.name, event.ind, None, << >>,
                            "IndexError", << >>)
         /\ UNCHANGED <<picks, source, h_up, h_down, h_sta, iup, idn, l, Line2D>>

onpick(event) ==
    IF Len(event.ind) = 0 THEN onpick_return(event)
    ELSE IF event.artist = h_up THEN onpick_selected(event, iup, "U")
    ELSE IF event.artist = h_down THEN onpick_selected(event, idn, "D")
    ELSE onpick_return(event)

-----------------------------------------------------------------------------
(* Plotter.enter_axes, Plotter.leave_axes *)

\* the color given is ignored: the highlight is never taken back
set_facecolor_gray(inaxes, color) ==
    IF inaxes = "ax2" THEN ax2' = [ax2 EXCEPT !.facecolor = "gray"]
    ELSE UNCHANGED ax2

set_facecolor(inaxes, color) ==
    IF inaxes = "ax2" THEN ax2' = [ax2 EXCEPT !.facecolor = color]
    ELSE UNCHANGED ax2

enter_axes(inaxes) ==
    /\ set_facecolor(inaxes, "gray")
    /\ last' = Handled("enter_axes", None, << >>, inaxes, << >>, None, << >>)
    /\ UNCHANGED <<picks, source, h_up, h_down, h_sta, iup, idn, pol, l, Line2D>>

leave_axes(inaxes) ==
    /\ set_facecolor(inaxes, "white")
    /\ last' = Handled("leave_axes", None, << >>, inaxes, << >>, None, << >>)
    /\ UNCHANGED <<picks, source, h_up, h_down, h_sta, iup, idn, pol, l, Line2D>>

-----------------------------------------------------------------------------
(* Plotter.switch_polarity *)

\* the two branches exchanged: the label is kept
npick_kept(pick) == IF pick = "U" THEN "U" ELSE "D"

\* if pick == 'U': npick = 'D' else: npick = 'U'
npick_of(pick) == IF pick = "U" THEN "D" ELSE "U"

\* the new label written back to the pick shown in the title
switch_polarity_write_back(inaxes) ==
    IF inaxes = "ax2" /\ l # None
    THEN LET npick == npick_of(pol)
         IN  /\ pol' = npick
             /\ picks' = [i \in 1..Len(picks) |->
                            IF Title(picks[i]) = ax2.title
                            THEN [picks[i] EXCEPT !.polarity = IF npick = "U" THEN 1 ELSE -1]
                            ELSE picks[i]]
             /\ Line2D' = [Line2D EXCEPT ![l].color = wf_color[npick]]
             /\ ax2' = [ax2 EXCEPT !.xlabel = npick]
             /\ last' = Handled("switch_polarity", None, << >>, inaxes, << >>, None, << >>)
             /\ UNCHANGED <<source, h_up, h_down, h_sta, iup, idn, l>>
    ELSE /\ last' = Handled("switch_polarity", None, << >>, inaxes, << >>,
                            IF inaxes = "ax2" THEN "AttributeError" ELSE None, << >>)
         /\ pol' = IF inaxes = "ax2" THEN npick_of(pol) ELSE pol
         /\ UNCHANGED <<picks, source, h_up, h_down, h_sta, iup, idn, l, Line2D, ax2>>

switch_polarity(inaxes) ==
    IF inaxes = "ax2"
    THEN LET pick == pol
             npick == npick_of(pick)
         IN  /\ pol' = npick
             /\ IF l = None
                THEN \* self.l.set_color: None has no attribute set_color
                     /\ last' = Handled("switch_polarity", None, << >>, inaxes,
                                        << >>, "AttributeError", << >>)
                     /\ UNCHANGED <<l, Line2D, ax2>>
                ELSE /\ Line2D' = [Line2D EXCEPT ![l].color = wf_color[npick]]
                     /\ ax2' = [ax2 EXCEPT !.xlabel = npick]
                     /\ last' = Handled("switch_polarity", None, << >>, inaxes,
                                        << >>, None, << >>)
                     /\ UNCHANGED l
             /\ UNCHANGED <<picks, source, h_up, h_down, h_sta, iup, idn>>
    ELSE /\ last' = Handled("switch_polarity", None, << >>, inaxes, << >>, None, << >>)
         /\ UNCHANGED session

-----------------------------------------------------------------------------
(* A call of get_waveform_from_arid from outside the Plotter *)

\* window left out: the default of the signature
get_waveform_from_arid_default(database, arid) ==
    get_waveform_from_arid(database, arid, DefaultWindow)

Fetched(arid, window, got) ==
    [handler |-> "get_waveform_from_arid", artist |-> None, ind |-> << >>,
     inaxes |-> None, fm |-> << >>, arid |-> arid, window |-> window,
     raised |-> got.raised, requests |-> got.requests, calls |-> 1]

call_with_window(arid, window) ==
    /\ last' = Fetched(arid, window, get_waveform_from_arid(source, arid, window))
    /\ UNCHANGED session

call_without_window(arid) ==
    /\ last' = Fetched(arid, 0, get_waveform_from_arid_default(source, arid))
    /\ UNCHANGED session

-----------------------------------------------------------------------------

\* The history kept for the properties: the pick the most recent resolving
\* marker click resolved to, and whether the fetch of any click has failed.
Remember ==
    hist' = IF last'.handler = "onpick" /\ last'.fm # << >>
            THEN [recent |-> last'.fm,
                  failed |-> hist.failed \/ last'.raised # None]
            ELSE hist

\* The Plotter on the canvas: the four callbacks connected by __init__.
Next ==
    \/ \E event \in PickEvents : Hits(event) /\ onpick(event) /\ Remember
    \/ \E inaxes \in Axes : enter_axes(inaxes) /\ Remember
    \/ \E inaxes \in Axes : leave_axes(inaxes) /\ Remember
    \/ \E inaxes \in Axes \cup {None} : switch_polarity(inaxes) /\ Remember

Spec == Init /\ [][Next]_vars

\* The fetcher alone: called by marker clicks and from outside the Plotter.
NextFetcher ==
    \/ \E event \in PickEvents : Hits(event) /\ onpick(event) /\ Remember
    \/ \E arid \in Arids, window \in Windows : call_with_window(arid, window) /\ Remember
    \/ \E arid \in Arids : call_without_window(arid) /\ Remember

SpecFetcher == Init /\ [][NextFetcher]_vars

TypeOK ==
    /\ pol \in {None, "U", "D"}
    /\ l \in LineIds \cup {None}
    /\ DOMAIN Line2D \subseteq LineIds
    /\ ax2.facecolor \in {"white", "gray"}

-----------------------------------------------------------------------------
(* Properties *)

Range(f) == {f[i] : i \in DOMAIN f}

\* A pick is selected and its trace is displayed.
Reviewing == pol # None /\ l # None /\ ax2.lines = <<l>>

\* The call handled last was a marker click that resolved to a pick.
Resolved == last.handler = "onpick" /\ last.fm # << >>

\* C1: after a marker click whose waveform fetch fails, in a Reviewing state,
\* the label, the trace reference, the Line2D objects and the waveform axes
\* (title, axis label, lines drawn) are what they were before the click.
C1_FailedFetchKeepsPanel ==
    [][ (Reviewing /\ last'.handler = "onpick" /\ last'.fm # << >>
            /\ last'.raised # None)
        => (pol' = pol /\ l' = l /\ Line2D' = Line2D /\ ax2' = ax2) ]_vars

\* C2: a click inside the waveform axes while no pick has ever been selected
\* (label None, trace None) raises nothing and changes nothing.
C2_IdlePanelClickIsNoOp ==
    [][ (pol = None /\ l = None /\ last'.handler = "switch_polarity"
            /\ last'.inaxes = "ax2")
        => (last'.raised = None /\ UNCHANGED session) ]_vars

\* The pick a marker of a group was drawn from, by the index set of the group.
PickOfMarker(inds, j) == picks[inds[j] + 1]

\* C3 as stated: the dip of every up or down marker is 90 - takeoff of its
\* pick, and the takeoff is recovered as 90 - dip.
C3_PlungeIsNinetyMinusTakeoff ==
    /\ \A j \in 1..Len(h_up.xy) :
          /\ h_up.xy[j].dip = 90 - PickOfMarker(iup, j).takeoff
          /\ PickOfMarker(iup, j).takeoff = 90 - h_up.xy[j].dip
    /\ \A j \in 1..Len(h_down.xy) :
          /\ h_down.xy[j].dip = 90 - PickOfMarker(idn, j).takeoff
          /\ PickOfMarker(idn, j).takeoff = 90 - h_down.xy[j].dip

PlungeFolded(dip, toa) ==
    /\ 0 <= dip /\ dip <= 90
    /\ toa <= 90 => dip = 90 - toa
    /\ toa >= 90 => dip = toa - 90

\* C3 amended: the dip of every up or down marker is |90 - takeoff| of its
\* pick: it lies in [0,90], is 90 - takeoff when takeoff <= 90 and
\* takeoff - 90 when takeoff >= 90; takeoffs 100, 60, 90 give 10, 30, 0.
C3_PlungeIsAbsolute ==
    /\ \A j \in 1..Len(h_up.xy) :
          PlungeFolded(h_up.xy[j].dip, PickOfMarker(iup, j).takeoff)
    /\ \A j \in 1..Len(h_down.xy) :
          PlungeFolded(h_down.xy[j].dip, PickOfMarker(idn, j).takeoff)
    /\ picks = SubSeq(PickPool, 1, 3)
          => /\ h_up.xy[1].dip = 10 /\ h_down.xy[1].dip = 30
             /\ h_up.xy[2].dip = 0

\* The mechanism P1, P2, P3 plotted: the marker of P1 (takeoff 100) has dip 10.
C3_Witness ==
    /\ picks = SubSeq(PickPool, 1, 3)
    /\ Len(h_up.xy) = 2 /\ Len(h_down.xy) = 1
    /\ h_up.xy[1].dip = 10

ZeroPicks == {i \in 1..Len(picks) : picks[i].polarity = 0}

\* C4 as stated: a mechanism with a pick of polarity 0 is rejected with an
\* error when it is plotted.
C4_ZeroPolarityRejected ==
    (last.handler = "__init__" /\ ZeroPicks # {}) => last.raised # None

\* C4 amended: a pick of polarity 0 is in neither index set and has no marker
\* in either group (the groups hold one marker per pick of non-zero
\* polarity); it keeps its station-name marker and nothing is raised when
\* the mechanism is plotted.
C4_ZeroPolarityLeftOut ==
    /\ \A i \in ZeroPicks :
          /\ (i - 1) \notin Range(iup) \cup Range(idn)
          /\ h_sta[i].name = picks[i].station
    /\ Len(h_up.xy) + Len(h_down.xy) = Len(picks) - Cardinality(ZeroPicks)
    /\ Len(iup) + Len(idn) = Len(picks) - Cardinality(ZeroPicks)
    /\ last.handler = "__init__" => last.raised = None

\* A mechanism with a pick of polarity 0 among others has been plotted.
C4_Witness ==
    /\ ZeroPicks # {} /\ Len(picks) > 1
    /\ last.handler = "__init__"
    /\ Len(h_up.xy) + Len(h_down.xy) = Len(picks) - 1

\* C5: every pick of polarity > 0 is in iup and not in idn, every pick of
\* polarity < 0 is in idn and not in iup, and iup and idn are disjoint.
C5_PartitionBySign ==
    /\ \A i \in 1..Len(picks) :
          /\ picks[i].polarity > 0
                => (i - 1) \in Range(iup) /\ (i - 1) \notin Range(idn)
          /\ picks[i].polarity < 0
                => (i - 1) \in Range(idn) /\ (i - 1) \notin Range(iup)
    /\ Range(iup) \cap Range(idn) = {}

\* A mechanism with picks of both signs has been plotted.
C5_Witness ==
    /\ \E i, j \in 1..Len(picks) : picks[i].polarity > 0 /\ picks[j].polarity < 0
    /\ iup # << >> /\ idn # << >>

\* The marker j (0-based) of a group resolves through inds to the j-th pick
\* of the sign of the group, in the original order, and the marker was drawn
\* from that pick.
ResolvesTo(h, inds, j, positive) ==
    /\ j < Len(inds)
    /\ inds[j + 1] \in 0..(Len(picks) - 1)
    /\ LET k == inds[j + 1]
           sameSign(i) == IF positive THEN picks[i].polarity > 0
                          ELSE picks[i].polarity < 0
       IN  /\ sameSign(k + 1)
           /\ Cardinality({i \in 1..k : sameSign(i)}) = j
           /\ h.xy[j + 1].strike = picks[k + 1].azimuth - 90

\* C6: every marker drawn in a group resolves to the pick it was drawn from,
\* whose polarity has the sign of the group; and a click on marker j of a
\* group resolved to that pick.
C6_MarkersResolveToTheirPicks ==
    /\ \A j \in 0..(Len(h_up.xy) - 1) : ResolvesTo(h_up, iup, j, TRUE)
    /\ \A j \in 0..(Len(h_down.xy) - 1) : ResolvesTo(h_down, idn, j, FALSE)
    /\ Resolved =>
          LET inds == IF last.artist = "h_rk_up" THEN iup ELSE idn
          IN  /\ last.artist \in {"h_rk_up", "h_rk_dn"}
              /\ last.ind[1] < Len(inds)
              /\ last.fm[1] = picks[inds[last.ind[1] + 1] + 1]
              /\ (last.artist = "h_rk_up") = (last.fm[1].polarity > 0)
              /\ (last.artist = "h_rk_dn") = (last.fm[1].polarity < 0)

\* The second marker of the down group was clicked: it resolved to the
\* second pick of negative polarity, which is not the second pick.
C6_Witness ==
    /\ Resolved /\ last.artist = "h_rk_dn" /\ last.ind[1] = 1
    /\ last.fm[1].polarity < 0
    /\ picks[2].polarity >= 0

\* C7: a marker pick event with no hit index leaves the session unchanged
\* and requests no waveform.
C7_NoHitChangesNothing ==
    [][ (last'.handler = "onpick" /\ last'.ind = << >>)
        => (UNCHANGED session /\ last'.requests = << >> /\ last'.raised = None) ]_vars

\* A pick event with no hit index was handled while a trace is displayed.
C7_Witness ==
    /\ last.handler = "onpick" /\ last.ind = << >>
    /\ last.artist \in {"h_rk_up", "h_rk_dn"}
    /\ Reviewing

\* C8: in a Reviewing state a click inside the waveform axes flips the label,
\* gives the trace the color of the new label (red for U, blue for D), sets
\* the axis label to the new label and changes nothing else (index sets,
\* title, waveform data, lines drawn), with no waveform request; a click in
\* any other axes, or in none, changes nothing.
C8_PanelClickTogglesLabelOnly ==
    [][ (Reviewing /\ last'.handler = "switch_polarity")
        => IF last'.inaxes = "ax2"
           THEN /\ pol' = (IF pol = "U" THEN "D" ELSE "U")
                /\ pol' \in {"U", "D"}
                /\ l' = l
                /\ Line2D'[l].color = (IF pol' = "U" THEN "red" ELSE "blue")
                /\ Line2D' = [Line2D EXCEPT ![l].color = Line2D'[l].color]
                /\ ax2'.xlabel = pol'
                /\ ax2' = [ax2 EXCEPT !.xlabel = pol']
                /\ UNCHANGED <<picks, source, h_up, h_down, h_sta, iup, idn>>
                /\ last'.requests = << >> /\ last'.raised = None
           ELSE UNCHANGED session /\ last'.requests = << >> ]_vars

\* P2 (polarity < 0) is displayed and a click in the waveform axes has
\* toggled its label to U: the trace is red.
C8_Witness ==
    /\ last.handler = "switch_polarity" /\ last.inaxes = "ax2"
    /\ Reviewing
    /\ ax2.title = "P2 -- 2" /\ pol = "U" /\ Line2D[l].color = "red"

\* C9: after a marker click that resolved to pick p and whose fetch
\* succeeded, the label is the sign of p's polarity, the trace drawn is the
\* held one and has the color of that label, the axis label shows the label
\* and the title shows p's station and arrival id.
C9_ClickSetsLabelFromPolarity ==
    (Resolved /\ last.raised = None) =>
        LET p == last.fm[1]
        IN  /\ p.polarity # 0
            /\ pol = (IF p.polarity > 0 THEN "U" ELSE "D")
            /\ l # None /\ ax2.lines = <<l>>
            /\ Line2D[l].color = (IF p.polarity > 0 THEN "red" ELSE "blue")
            /\ ax2.xlabel = pol
            /\ ax2.title = p.station \o " -- " \o ToString(p.arid)

\* A click resolved to P2 and its waveform was fetched: label D, blue trace.
C9_Witness ==
    /\ Resolved /\ last.raised = None
    /\ last.fm[1] = PickPool[2]
    /\ pol = "D" /\ Line2D[l].color = "blue" /\ ax2.title = "P2 -- 2"

\* C10: every request for samples is for the interval [T - w/2, T + w/2] on
\* the station and channel of the arrival, T being the onset of the arrival
\* in the database; w is 0.5 s (4 ticks) for a marker click, 4.0 s (32 ticks)
\* when no window is given, and the window given otherwise. One call makes
\* at most one request.
C10_SymmetricWindow ==
    /\ Len(last.requests) <= 1
    /\ last.requests # << >> =>
          LET req == last.requests[1]
              arid == IF last.handler = "onpick" THEN last.fm[1].arid ELSE last.arid
              w == IF last.handler = "onpick" THEN 4
                   ELSE IF last.window = 0 THEN 32 ELSE last.window
              row == CHOOSE r \in source.arrival : r.arid = arid
          IN  /\ \E r \in source.arrival : r.arid = arid
              /\ 2 * req.starttime = 2 * row.time - w
              /\ 2 * req.endtime = 2 * row.time + w
              /\ req.station = row.sta /\ req.channel = row.chan

\* A marker click on P2 requested [T - 0.25 s, T + 0.25 s] around its onset.
C10_Witness ==
    /\ Resolved /\ last.fm[1] = PickPool[2]
    /\ last.requests # << >>
    /\ last.requests[1].starttime = Onset(2) - 2
    /\ last.requests[1].endtime = Onset(2) + 2

\* C11: no error raised while a marker click is handled leaves the handler.
C11_NoErrorLeavesOnpick ==
    last.handler = "onpick" => last.raised = None

\* C12: no step writes the picks of the mechanism (polarity, azimuth,
\* takeoff, station, arrival id), its source, the marker groups or the index
\* sets iup and idn.
C12_MechanismNeverWritten ==
    [][ /\ picks' = picks /\ source' = source
        /\ iup' = iup /\ idn' = idn
        /\ h_up' = h_up /\ h_down' = h_down ]_vars

\* A pick of negative polarity is displayed with its label toggled to U, and
\* it is still in the mechanism with its polarity.
C12_Witness ==
    /\ last.handler = "switch_polarity" /\ last.inaxes = "ax2"
    /\ Reviewing /\ pol = "U"
    /\ hist.recent # << >> /\ hist.recent[1].polarity < 0
    /\ \E j \in 1..Len(idn) : picks[idn[j] + 1] = hist.recent[1]

\* C13: an axes_enter_event or axes_leave_event writes nothing but the
\* facecolor of the waveform axes, gray on entering it and white on leaving
\* it, and nothing at all for any other axes; no waveform is requested.
C13_EnterLeaveOnlyHighlight ==
    [][ (last'.handler \in {"enter_axes", "leave_axes"})
        => /\ UNCHANGED <<picks, source, h_up, h_down, h_sta, iup, idn, pol, l, Line2D>>
           /\ ax2' = [ax2 EXCEPT !.facecolor =
                        IF last'.inaxes # "ax2" THEN @
                        ELSE IF last'.handler = "enter_axes" THEN "gray" ELSE "white"]
           /\ last'.requests = << >> /\ last'.calls = 0
           /\ last'.raised = None ]_vars

\* The pointer has left the highlighted waveform axes while a trace is
\* displayed: the facecolor is white again.
C13_Witness ==
    /\ last.handler = "leave_axes" /\ last.inaxes = "ax2"
    /\ Reviewing /\ ax2.facecolor = "white"

\* The index set and the label of the marker group named in a handled call.
IndsOf(name) == IF name = "h_rk_up" THEN iup ELSE idn
LabelOf(name) == IF name = "h_rk_up" THEN "U" ELSE "D"

\* C14: a click on a marker group that reports several hit indices writes
\* what a click reporting only the first of them writes, resolves to the
\* same pick and makes the same request.
C14_FirstHitOnly ==
    [][ (last'.handler = "onpick" /\ Len(last'.ind) > 1
            /\ last'.artist \in {"h_rk_up", "h_rk_dn"})
        => LET first == last'.ind[1]
               inds == IndsOf(last'.artist)
               fm == fm_of(first, inds)
               got == get_waveform_from_arid(source, fm.arid, ClickWindow)
           IN  /\ onpick_panel(first, inds, LabelOf(last'.artist))
               /\ last'.fm = <<fm>>
               /\ last'.requests = got.requests
               /\ last'.raised = raised_of(got) ]_vars

\* A click reported two hits of the up group and its fetch succeeded.
C14_Witness ==
    /\ Resolved /\ Len(last.ind) = 2 /\ last.artist = "h_rk_up"
    /\ last.raised = None
    /\ last.fm[1] = picks[iup[last.ind[1] + 1] + 1]
    /\ last.fm[1] # picks[iup[last.ind[2] + 1] + 1]

\* C15: once the label is U or D, every later step leaves it U or D.
C15_NeverBackToIdle ==
    [][ (pol \in {"U", "D"}) => (pol' \in {"U", "D"}) ]_vars

\* After a pick was reviewed, a pick event that selects nothing was handled
\* and the label is still set.
C15_Witness ==
    /\ hist.recent # << >>
    /\ last.handler = "onpick" /\ last.fm = << >>
    /\ pol \in {"U", "D"}

\* C16: the handler of a marker click that resolves to a pick calls the
\* fetcher exactly once, also when the fetch fails, and every other handler
\* never calls it; so the fetches made are as many as the resolving clicks.
C16_OneFetchPerResolvingClick ==
    /\ last.calls = (IF Resolved THEN 1 ELSE 0)
    /\ Len(last.requests) <= last.calls

\* A resolving click whose fetch failed: one call, no second one.
C16_Witness ==
    /\ Resolved /\ last.raised # None
    /\ last.calls = 1

\* C17: while no fetch of a marker click has failed, the title and the
\* waveform displayed are those of the pick clicked most recently: the
\* samples drawn are those of its arrival, 0.25 s around its onset.
C17_LatestClickIsDisplayed ==
    (hist.recent # << >> /\ ~hist.failed) =>
        LET p == hist.recent[1]
            row == CHOOSE r \in source.arrival : r.arid = p.arid
        IN  /\ \E r \in source.arrival : r.arid = p.arid
            /\ ax2.title = p.station \o " -- " \o ToString(p.arid)
            /\ l # None /\ ax2.lines = <<l>>
            /\ Line2D[l].data = [station |-> row.sta, channel |-> row.chan,
                                 starttime |-> row.time - 2,
                                 endtime |-> row.time + 2]

\* P2 was clicked last, no fetch has failed, and panel events have followed.
C17_Witness ==
    /\ hist.recent = <<PickPool[2]>> /\ ~hist.failed
    /\ last.handler = "switch_polarity" /\ last.inaxes = "ax2"
    /\ ax2.title = "P2 -- 2" /\ ax2.lines = <<l>>
    /\ Line2D[l].data.station = "P2"

\* C18: whenever a trace reference is held, the trace has the color of the
\* current label (red for U, blue for D), the axis label is the current
\* label and the held trace is the one drawn in the waveform axes.
C18_HeldTraceMatchesLabel ==
    l # None =>
        /\ pol \in {"U", "D"}
        /\ Line2D[l].color = (IF pol = "U" THEN "red" ELSE "blue")
        /\ ax2.xlabel = pol
        /\ ax2.lines = <<l>>

\* C19: a pick event with hits whose artist is neither marker group leaves
\* the session unchanged and calls no fetch.
C19_OtherArtistChangesNothing ==
    [][ (last'.handler = "onpick" /\ last'.ind # << >>
            /\ last'.artist \notin {"h_rk_up", "h_rk_dn"})
        => /\ UNCHANGED session
           /\ last'.requests = << >> /\ last'.calls = 0
           /\ last'.raised = None ]_vars

\* A station-name marker was picked while a trace is displayed.
C19_Witness ==
    /\ last.handler = "onpick" /\ last.ind # << >>
    /\ last.artist \notin {"h_rk_up", "h_rk_dn"}
    /\ last.fm = << >>
    /\ Reviewing

====
